---- MODULE Spec2Model ----
(***************************************************************************)
(* A model of rasa/nlu/utils/spacy_utils.py: the SpacyNLP component.       *)
(*                                                                         *)
(*   - model-name resolution (_check_model_fallback), cache_key, and the   *)
(*     acquisition of the spaCy language object (create / load);           *)
(*   - the index / partition / batch / merge pipeline that computes the    *)
(*     documents of a training set (docs_for_training_data) and train;     *)
(*   - single-message inference (process).                                 *)
(*                                                                         *)
(* A text is a sequence of characters; None is Python's None.  spaCy is    *)
(* external: it is modelled at its interface (Language.__call__,           *)
(* Language.pipe, Doc(vocab), len(doc), spacy.load).                       *)
(***************************************************************************)
EXTENDS Integers, Sequences, FiniteSets, TLC

VARIABLES
    \* ---- resolution / acquisition -------------------------------------
    advisories,      \* number of raise_deprecation_warning calls so far
    calls,           \* number of classmethod calls made so far
    last,            \* the record of the most recent classmethod call
    prev,            \* the record of the latest cache_key call before it
    resident,        \* the component the host keeps (None before any)
    \* ---- training / inference -----------------------------------------
    examples,        \* training_data.training_examples (or the one message)
    case_sensitive,  \* component_config["case_sensitive"]
    pc,              \* position of the running method
    attr,            \* index of the attribute the docs loop is at
    indexed_training_samples,
    samples_to_pipe,
    empty_samples,
    content_bearing_docs,
    non_content_bearing_docs,
    attribute_document_list,
    attribute_docs,  \* attribute -> list of docs, for the attributes done
    pipe_calls,      \* the argument of every nlp.pipe call, in call order
    nlp_calls,       \* the argument of every nlp(text) call, in call order
    spacy_docs,      \* per example: attribute -> attached Doc, or NoDoc
    raised           \* the exception the method ended with, or None

acqVars == <<advisories, calls, last, prev, resident>>
runVars == <<examples, case_sensitive, pc, attr, indexed_training_samples,
             samples_to_pipe, empty_samples, content_bearing_docs,
             non_content_bearing_docs, attribute_document_list,
             attribute_docs, pipe_calls, nlp_calls, spacy_docs, raised>>
vars == <<advisories, calls, last, prev, resident,
          examples, case_sensitive, pc, attr, indexed_training_samples,
          samples_to_pipe, empty_samples, content_bearing_docs,
          non_content_bearing_docs, attribute_document_list,
          attribute_docs, pipe_calls, nlp_calls, spacy_docs, raised>>

\* Python's None where a text is expected: no text is the sequence <<"None">>
\* (a text is a sequence of single characters, so the two never meet)
None == <<"None">>

\* Python's None where a name, a path or an exception is expected
NoneStr == "None"

(***************************************************************************)
(* Bounds of the model.                                                    *)
(***************************************************************************)
MaxExamples == 2    \* training examples in a training set
MaxLen == 3         \* (position, text) pairs handed to the pipeline
MaxPos == 3         \* positions are drawn from 0..MaxPos
MaxCalls == 3       \* classmethod calls in one behaviour

(***************************************************************************)
(* Texts.                                                                  *)
(***************************************************************************)
EmptyText == << >>

\* The texts examples carry: empty, two that differ in case only, whitespace.
Texts == { EmptyText, <<"H", "i">>, <<"h", "i">>, <<" ">> }

\* str.lower on one character
LowerChar(c) == IF c = "H" THEN "h" ELSE c

\* str.lower
Lower(text) == [i \in 1..Len(text) |-> LowerChar(text[i])]

\* preprocess_text: None becomes "", lower-cased unless case_sensitive
preprocess_text(cs, text) ==
    LET t == IF text = None THEN EmptyText ELSE text
    IN  IF cs THEN t ELSE Lower(t)

\* DENSE_FEATURIZABLE_ATTRIBUTES, in iteration order
DENSE_FEATURIZABLE_ATTRIBUTES == <<"text", "response">>

Attributes == { DENSE_FEATURIZABLE_ATTRIBUTES[i] :
                    i \in 1..Len(DENSE_FEATURIZABLE_ATTRIBUTES) }

\* Message.get(attribute): the value stored under the attribute; an example
\* maps every attribute, an attribute it does not carry to None
MessageGet(example, attribute) == example[attribute]

\* get_text: the preprocessed attribute of an example
get_text(cs, example, attribute) ==
    preprocess_text(cs, MessageGet(example, attribute))

(***************************************************************************)
(* The spaCy provider, at its interface.                                   *)
(***************************************************************************)
\* spaCy's tokenizer is non-destructive: every character of the text lies in
\* a token or in the single trailing space of the token before it.  A token
\* starts at a non-space that begins a word, at a space that begins the text
\* and at the second space of a run that follows a word.
TokenStart(text, i) ==
    IF text[i] # " "
    THEN i = 1 \/ text[i - 1] = " "
    ELSE i = 1 \/ (i >= 3 /\ text[i - 1] = " " /\ text[i - 2] # " ")

NTokens(text) == Cardinality({ i \in 1..Len(text) : TokenStart(text, i) })

\* self.nlp(text): the Doc of one text
NlpCall(text) == [text |-> text, ntokens |-> NTokens(text), by |-> "nlp"]

\* self.nlp.pipe(texts, batch_size=50): one Doc per text, in the order given
NlpPipe(texts) ==
    [i \in 1..Len(texts) |->
        [text |-> texts[i], ntokens |-> NTokens(texts[i]), by |-> "pipe"]]

\* Doc(self.nlp.vocab): a Doc with no tokens
EmptyDoc == [text |-> EmptyText, ntokens |-> 0, by |-> "vocab"]

\* len(doc)
DocLen(doc) == doc.ntokens

(***************************************************************************)
(* The pipeline's pure functions.  A sample is <<position, text>>, a       *)
(* processed sample <<position, doc>>.                                     *)
(***************************************************************************)
\* list(filter(pred, xs))
RECURSIVE FilterSeq(_, _)
FilterSeq(xs, keepEmpty) ==
    IF xs = << >> THEN << >>
    ELSE LET rest == FilterSeq(Tail(xs), keepEmpty)
         IN  IF (Head(xs)[2] = EmptyText) = keepEmpty
             THEN <<Head(xs)>> \o rest
             ELSE rest

\* a plausible slip: nothing is filtered out, every sample goes to the pipe
filter_keeps_everything(samples) == <<samples, << >>>>

\* filter_training_samples_by_content: (docs_to_pipe, empty_docs)
filter_training_samples_by_content(samples) ==
    <<FilterSeq(samples, FALSE), FilterSeq(samples, TRUE)>>

\* a plausible slip: a text that occurs twice is sent once
RECURSIVE DistinctTexts(_)
DistinctTexts(samples) ==
    IF samples = << >> THEN << >>
    ELSE LET front == SubSeq(samples, 1, Len(samples) - 1)
             x == samples[Len(samples)][2]
         IN  IF \E i \in 1..Len(front) : front[i][2] = x
             THEN DistinctTexts(front)
             ELSE Append(DistinctTexts(front), x)

\* the list the comprehension [txt for _, txt in samples_to_pipe] builds
PipeArgument(samples) == [i \in 1..Len(samples) |-> samples[i][2]]

\* the nlp.pipe calls process_content_bearing_samples makes: always one,
\* whatever the list holds
PipeInvocations(samples) == <<PipeArgument(samples)>>

\* zip(xs, ys): as long as the shorter
Zip(xs, ys) ==
    LET n == IF Len(xs) <= Len(ys) THEN Len(xs) ELSE Len(ys)
    IN  [i \in 1..n |-> <<xs[i], ys[i]>>]

\* process_content_bearing_samples
process_content_bearing_samples(samples) ==
    LET z == Zip(samples, NlpPipe(PipeArgument(samples)))
    IN  [i \in 1..Len(z) |-> <<z[i][1][1], z[i][2]>>]

\* process_non_content_bearing_samples
process_non_content_bearing_samples(samples) ==
    LET z == Zip(samples, [i \in 1..Len(samples) |-> EmptyDoc])
    IN  [i \in 1..Len(z) |-> <<z[i][1][1], z[i][2]>>]

\* dict(pairs): the last pair of a key wins
ToDict(pairs) ==
    [k \in { pairs[i][1] : i \in 1..Len(pairs) } |->
        LET j == CHOOSE j \in 1..Len(pairs) :
                    /\ pairs[j][1] = k
                    /\ \A m \in (j + 1)..Len(pairs) : pairs[m][1] # k
        IN  pairs[j][2]]

\* d.update(e)
DictUpdate(d, e) ==
    [k \in (DOMAIN d) \cup (DOMAIN e) |-> IF k \in DOMAIN e THEN e[k] ELSE d[k]]

\* sorted(d.items()): the keys are distinct, so the order is by key
RECURSIVE SortedItems(_)
SortedItems(d) ==
    IF DOMAIN d = {} THEN << >>
    ELSE LET k == CHOOSE k \in DOMAIN d : \A m \in DOMAIN d : k <= m
         IN  <<<<k, d[k]>>>> \o SortedItems([m \in (DOMAIN d) \ {k} |-> d[m]])

\* a plausible slip: the processed lists are returned as they were appended
merge_unsorted(samples, doc_lists) == doc_lists

\* merge_content_lists
merge_content_lists(samples, doc_lists) ==
    SortedItems(DictUpdate(ToDict(samples), ToDict(doc_lists)))

\* [doc for _, doc in attribute_document_list]
Seconds(pairs) == [i \in 1..Len(pairs) |-> pairs[i][2]]

(***************************************************************************)
(* spaCy language objects and components.                                  *)
(***************************************************************************)
\* what spacy.load can hand back: nothing, a stub that was not read from
\* disk (path None), or a Language read from disk
NlpNone == [kind |-> "None", path |-> NoneStr]
NlpStub == [kind |-> "Language", path |-> NoneStr]
NlpFromDisk(name) == [kind |-> "Language", path |-> name]

\* no component
NoComponent == [kind |-> "None", model |-> NoneStr, nlp |-> NlpNone]

\* SpacyNLP.__init__(component_config, nlp)
SpacyNLP(model, nlp) == [kind |-> "SpacyNLP", model |-> model, nlp |-> nlp]

\* no call made yet
NoCall ==
    [op |-> "none", model |-> NoneStr, language |-> NoneStr, warn |-> FALSE,
     cached |-> FALSE, loader |-> NoneStr, steps |-> << >>,
     name |-> NoneStr, key |-> NoneStr, component |-> NoComponent,
     error |-> NoneStr, warned |-> 0]

InitAcquisition ==
    /\ advisories = 0
    /\ calls = 0
    /\ last = NoCall
    /\ prev = NoCall
    /\ resident = NoComponent

\* no method of a component is running
InitIdle ==
    /\ examples = << >>
    /\ case_sensitive = FALSE
    /\ pc = "idle"
    /\ attr = 0
    /\ indexed_training_samples = << >>
    /\ samples_to_pipe = << >>
    /\ empty_samples = << >>
    /\ content_bearing_docs = << >>
    /\ non_content_bearing_docs = << >>
    /\ attribute_document_list = << >>
    /\ attribute_docs = << >>
    /\ pipe_calls = << >>
    /\ nlp_calls = << >>
    /\ spacy_docs = << >>
    /\ raised = NoneStr

(***************************************************************************)
(* The pipeline on a list of indexed samples: the four calls that          *)
(* docs_for_training_data makes for one attribute, applied to any list of  *)
(* (position, text) pairs with distinct positions.                         *)
(***************************************************************************)
Positions == 0..MaxPos

UniquePositions(samples) ==
    \A i, j \in 1..Len(samples) : samples[i][1] = samples[j][1] => i = j

IndexedLists ==
    UNION { { s \in [1..n -> Positions \X Texts] : UniquePositions(s) } :
                n \in 0..MaxLen }

InitPipeline ==
    /\ InitAcquisition
    /\ examples = << >>
    /\ case_sensitive = FALSE
    /\ pc = "filter"
    /\ attr = 0
    /\ indexed_training_samples \in IndexedLists
    /\ samples_to_pipe = << >>
    /\ empty_samples = << >>
    /\ content_bearing_docs = << >>
    /\ non_content_bearing_docs = << >>
    /\ attribute_document_list = << >>
    /\ attribute_docs = << >>
    /\ pipe_calls = << >>
    /\ nlp_calls = << >>
    /\ spacy_docs = << >>
    /\ raised = NoneStr

\* one nlp.pipe call of the attribute being processed
PipeCall(attribute, texts) == [attribute |-> attribute, texts |-> texts]

PipeCallsOf(attribute, samples) ==
    LET inv == PipeInvocations(samples)
    IN  [i \in 1..Len(inv) |-> PipeCall(attribute, inv[i])]

CallFilter ==
    /\ pc = "filter"
    /\ samples_to_pipe' =
           filter_training_samples_by_content(indexed_training_samples)[1]
    /\ empty_samples' =
           filter_training_samples_by_content(indexed_training_samples)[2]
    /\ pc' = "pipe"
    /\ UNCHANGED <<examples, case_sensitive, attr, indexed_training_samples,
                   content_bearing_docs, non_content_bearing_docs,
                   attribute_document_list, attribute_docs, pipe_calls,
                   nlp_calls, spacy_docs, raised>>
    /\ UNCHANGED acqVars

CallProcessContentBearing ==
    /\ pc = "pipe"
    /\ content_bearing_docs' = process_content_bearing_samples(samples_to_pipe)
    /\ pipe_calls' = pipe_calls \o PipeCallsOf(NoneStr, samples_to_pipe)
    /\ pc' = "empty"
    /\ UNCHANGED <<examples, case_sensitive, attr, indexed_training_samples,
                   samples_to_pipe, empty_samples, non_content_bearing_docs,
                   attribute_document_list, attribute_docs,
                   nlp_calls, spacy_docs, raised>>
    /\ UNCHANGED acqVars

CallProcessNonContentBearing ==
    /\ pc = "empty"
    /\ non_content_bearing_docs' =
           process_non_content_bearing_samples(empty_samples)
    /\ pc' = "merge"
    /\ UNCHANGED <<examples, case_sensitive, attr, indexed_training_samples,
                   samples_to_pipe, empty_samples, content_bearing_docs,
                   attribute_document_list, attribute_docs, pipe_calls,
                   nlp_calls, spacy_docs, raised>>
    /\ UNCHANGED acqVars

CallMerge ==
    /\ pc = "merge"
    /\ attribute_document_list' =
           merge_content_lists(indexed_training_samples,
                               content_bearing_docs \o non_content_bearing_docs)
    /\ pc' = "merged"
    /\ UNCHANGED <<examples, case_sensitive, attr, indexed_training_samples,
                   samples_to_pipe, empty_samples, content_bearing_docs,
                   non_content_bearing_docs, attribute_docs, pipe_calls,
                   nlp_calls, spacy_docs, raised>>
    /\ UNCHANGED acqVars

NextPipeline ==
    \/ CallFilter
    \/ CallProcessContentBearing
    \/ CallProcessNonContentBearing
    \/ CallMerge

SpecPipeline == InitPipeline /\ [][NextPipeline]_vars

(***************************************************************************)
(* C1: order preservation.  For every list of (position, text) pairs with  *)
(* distinct positions, the merged list has exactly one entry per input     *)
(* position, in ascending position order; the entry of a position is the   *)
(* zero-token Doc built from the vocabulary when the position's text is    *)
(* empty and the Doc nlp.pipe makes of the position's text otherwise.  So  *)
(* for positions 0..n-1 in order the list of docs is as long as the input  *)
(* and aligned with it index by index.                                     *)
(***************************************************************************)
ExpectedDoc(text) ==
    IF text = EmptyText THEN EmptyDoc ELSE NlpPipe(<<text>>)[1]

IsEnumerated(samples) == \A i \in 1..Len(samples) : samples[i][1] = i - 1

C1_OrderPreservation ==
    pc = "merged" =>
        LET in == indexed_training_samples
            out == attribute_document_list
        IN  /\ Len(out) = Len(in)
            /\ \A i \in 1..Len(out) : \A j \in 1..Len(out) :
                   i < j => out[i][1] < out[j][1]
            /\ { out[i][1] : i \in 1..Len(out) } = { in[i][1] : i \in 1..Len(in) }
            /\ \A i \in 1..Len(in) : \A j \in 1..Len(out) :
                   out[j][1] = in[i][1] => out[j][2] = ExpectedDoc(in[i][2])
            /\ IsEnumerated(in) =>
                   \A i \in 1..Len(in) :
                       Seconds(out)[i] = ExpectedDoc(in[i][2])

\* a merged list whose input is not in position order, not dense, and mixes
\* empty and non-empty texts
C1_Witness ==
    /\ pc = "merged"
    /\ Len(indexed_training_samples) = 3
    /\ indexed_training_samples[1][1] > indexed_training_samples[2][1]
    /\ ~ IsEnumerated(indexed_training_samples)
    /\ Len(samples_to_pipe) = 2
    /\ Len(empty_samples) = 1
    /\ indexed_training_samples[2][2] = EmptyText

(***************************************************************************)
(* train: docs_for_training_data, then the attachment loop.                *)
(***************************************************************************)
\* nothing is set under SPACY_DOCS[attribute]
NoDoc == [text |-> EmptyText, ntokens |-> 0, by |-> "None"]

RawTexts == Texts \cup {None}

Examples == [Attributes -> RawTexts]

ExampleLists == UNION { [1..n -> Examples] : n \in 0..MaxExamples }

NothingAttached(exs) == [i \in 1..Len(exs) |-> [a \in Attributes |-> NoDoc]]

\* [(idx, text) for idx, text in enumerate(texts)]
Enumerate(texts) == [i \in 1..Len(texts) |-> <<i - 1, texts[i]>>]

\* the texts of one attribute over the training examples
AttributeTexts(cs, exs, attribute) ==
    [i \in 1..Len(exs) |-> get_text(cs, exs[i], attribute)]

\* the index of an attribute in DENSE_FEATURIZABLE_ATTRIBUTES
AttributeIndex(attribute) ==
    CHOOSE k \in 1..Len(DENSE_FEATURIZABLE_ATTRIBUTES) :
        DENSE_FEATURIZABLE_ATTRIBUTES[k] = attribute

\* a plausible slip: the length test is dropped
ShouldAttachAlways(doc) == TRUE

\* if len(example_attribute_doc):
ShouldAttach(doc) == DocLen(doc) > 0

\* the attachment of the docs of the attributes in attrs to the examples
Attach(docs, attrs, attached) ==
    [i \in 1..Len(attached) |->
        [a \in Attributes |->
            IF a \in attrs /\ ShouldAttach(docs[AttributeIndex(a)][i])
            THEN docs[AttributeIndex(a)][i]
            ELSE attached[i][a]]]

InitTrain ==
    /\ InitAcquisition
    /\ examples \in ExampleLists
    /\ case_sensitive \in BOOLEAN
    /\ pc = "docs_texts"
    /\ attr = 1
    /\ indexed_training_samples = << >>
    /\ samples_to_pipe = << >>
    /\ empty_samples = << >>
    /\ content_bearing_docs = << >>
    /\ non_content_bearing_docs = << >>
    /\ attribute_document_list = << >>
    /\ attribute_docs = << >>
    /\ pipe_calls = << >>
    /\ nlp_calls = << >>
    /\ spacy_docs = NothingAttached(examples)
    /\ raised = NoneStr

\* docs_for_training_data, one attribute: the texts, their indices and the
\* partition
DocsTexts ==
    /\ pc = "docs_texts"
    /\ LET texts == AttributeTexts(case_sensitive, examples,
                                   DENSE_FEATURIZABLE_ATTRIBUTES[attr])
           indexed == Enumerate(texts)
           parts == filter_training_samples_by_content(indexed)
       IN  /\ indexed_training_samples' = indexed
           /\ samples_to_pipe' = parts[1]
           /\ empty_samples' = parts[2]
    /\ pc' = "docs_pipe"
    /\ UNCHANGED <<examples, case_sensitive, attr, content_bearing_docs,
                   non_content_bearing_docs, attribute_document_list,
                   attribute_docs, pipe_calls, nlp_calls, spacy_docs, raised>>
    /\ UNCHANGED acqVars

\* the batched call returns
DocsPipe ==
    /\ pc = "docs_pipe"
    /\ content_bearing_docs' = process_content_bearing_samples(samples_to_pipe)
    /\ pipe_calls' = pipe_calls \o
           PipeCallsOf(DENSE_FEATURIZABLE_ATTRIBUTES[attr], samples_to_pipe)
    /\ pc' = "docs_merge"
    /\ UNCHANGED <<examples, case_sensitive, attr, indexed_training_samples,
                   samples_to_pipe, empty_samples, non_content_bearing_docs,
                   attribute_document_list, attribute_docs, nlp_calls,
                   spacy_docs, raised>>
    /\ UNCHANGED acqVars

\* the batched call fails: nothing catches it, train ends with it
DocsPipeRaises ==
    /\ pc = "docs_pipe"
    /\ pipe_calls' = pipe_calls \o
           PipeCallsOf(DENSE_FEATURIZABLE_ATTRIBUTES[attr], samples_to_pipe)
    /\ raised' = "ProviderError"
    /\ pc' = "raised"
    /\ UNCHANGED <<examples, case_sensitive, attr, indexed_training_samples,
                   samples_to_pipe, empty_samples, content_bearing_docs,
                   non_content_bearing_docs, attribute_document_list,
                   attribute_docs, nlp_calls, spacy_docs>>
    /\ UNCHANGED acqVars

\* the empty docs, the merge, and the attribute's entry of attribute_docs
DocsMerge ==
    /\ pc = "docs_merge"
    /\ LET empties == process_non_content_bearing_samples(empty_samples)
           merged == merge_content_lists(indexed_training_samples,
                                         content_bearing_docs \o empties)
       IN  /\ non_content_bearing_docs' = empties
           /\ attribute_document_list' = merged
           /\ attribute_docs' = Append(attribute_docs, Seconds(merged))
    /\ IF attr < Len(DENSE_FEATURIZABLE_ATTRIBUTES)
       THEN attr' = attr + 1 /\ pc' = "docs_texts"
       ELSE attr' = attr /\ pc' = "attach"
    /\ UNCHANGED <<examples, case_sensitive, indexed_training_samples,
                   samples_to_pipe, empty_samples, content_bearing_docs,
                   pipe_calls, nlp_calls, spacy_docs, raised>>
    /\ UNCHANGED acqVars

\* a plausible slip: the attachment loop fused into the docs loop, so the docs
\* of an attribute are attached as soon as they are computed
TrainAttachFused ==
    /\ \/ pc = "attach"
       \/ pc = "docs_texts" /\ attr > 1 /\
              spacy_docs = NothingAttached(examples)
    /\ spacy_docs' = Attach(attribute_docs,
                            { DENSE_FEATURIZABLE_ATTRIBUTES[k] :
                                  k \in 1..Len(attribute_docs) },
                            spacy_docs)
    /\ spacy_docs' # spacy_docs \/ pc = "attach"
    /\ pc' = IF pc = "attach" THEN "done" ELSE pc
    /\ UNCHANGED <<examples, case_sensitive, attr, indexed_training_samples,
                   samples_to_pipe, empty_samples, content_bearing_docs,
                   non_content_bearing_docs, attribute_document_list,
                   attribute_docs, pipe_calls, nlp_calls, raised>>
    /\ UNCHANGED acqVars

\* train, after docs_for_training_data returned: the attachment loop
TrainAttach ==
    /\ pc = "attach"
    /\ spacy_docs' = Attach(attribute_docs, Attributes, spacy_docs)
    /\ pc' = "done"
    /\ UNCHANGED <<examples, case_sensitive, attr, indexed_training_samples,
                   samples_to_pipe, empty_samples, content_bearing_docs,
                   non_content_bearing_docs, attribute_document_list,
                   attribute_docs, pipe_calls, nlp_calls, raised>>
    /\ UNCHANGED acqVars

NextTrain ==
    \/ DocsTexts
    \/ DocsPipe
    \/ DocsPipeRaises
    \/ DocsMerge
    \/ TrainAttach

SpecTrain == InitTrain /\ [][NextTrain]_vars

(***************************************************************************)
(* What the claims about train speak of.                                   *)
(***************************************************************************)
\* the normalized text: absent text is the empty string, lower-cased unless
\* case_sensitive is set
Normalized(cs, raw) ==
    IF raw = None THEN EmptyText ELSE IF cs THEN raw ELSE Lower(raw)

NormalizedTexts(attribute) ==
    [i \in 1..Len(examples) |->
        Normalized(case_sensitive, examples[i][attribute])]

IsNonEmpty(text) == text # EmptyText

NonEmptySubsequence(texts) == SelectSeq(texts, IsNonEmpty)

AllEmpty(attribute) ==
    \A i \in 1..Len(examples) : NormalizedTexts(attribute)[i] = EmptyText

\* the nlp.pipe calls made while the attribute's documents were computed
PipeCallsFor(attribute) ==
    LET Mine(c) == c.attribute = attribute
    IN  SelectSeq(pipe_calls, Mine)

\* process_content_bearing_samples has run (or failed) for the k-th attribute
PipeStagePassed(k) ==
    \/ k < attr
    \/ k = attr /\ pc \notin {"docs_texts", "docs_pipe"}

AttributeNumbers == 1..Len(DENSE_FEATURIZABLE_ATTRIBUTES)

(***************************************************************************)
(* C2 as stated: when every normalized text of an attribute is empty       *)
(* (also when there are no examples), nlp.pipe is invoked zero times while *)
(* the attribute's documents are computed, and the result for an empty     *)
(* collection is an empty sequence.                                        *)
(***************************************************************************)
C2_Original_NoPipeCall ==
    \A k \in AttributeNumbers :
        LET a == DENSE_FEATURIZABLE_ATTRIBUTES[k]
        IN  /\ (AllEmpty(a) /\ PipeStagePassed(k)) => PipeCallsFor(a) = << >>
            /\ (examples = << >> /\ Len(attribute_docs) >= k) =>
                   attribute_docs[k] = << >>

(***************************************************************************)
(* C2 as amended: when every normalized text of an attribute is empty      *)
(* (also when there are no examples), nlp.pipe is invoked exactly once     *)
(* while the attribute's documents are computed, with an empty list of     *)
(* texts, so no text reaches the provider; and the result for an empty     *)
(* collection is an empty sequence.                                        *)
(***************************************************************************)
C2_EmptySkip ==
    \A k \in AttributeNumbers :
        LET a == DENSE_FEATURIZABLE_ATTRIBUTES[k]
        IN  /\ (AllEmpty(a) /\ PipeStagePassed(k)) =>
                   /\ Len(PipeCallsFor(a)) = 1
                   /\ PipeCallsFor(a)[1].texts = << >>
            /\ (examples = << >> /\ Len(attribute_docs) >= k) =>
                   attribute_docs[k] = << >>

\* train is through with two examples whose "text" is absent in one and the
\* empty string in the other
C2_Witness ==
    /\ pc = "done"
    /\ Len(examples) = 2
    /\ examples[1]["text"] = None
    /\ examples[2]["text"] = EmptyText
    /\ examples[2]["response"] # EmptyText
    /\ Len(PipeCallsFor("text")) = 1

(***************************************************************************)
(* C3: the texts handed to nlp.pipe for an attribute are exactly the       *)
(* normalized texts of the attribute that are not the empty string, in     *)
(* their original order, duplicates kept: no empty string is sent, no      *)
(* non-empty text is dropped, and as many texts are sent as there are      *)
(* non-empty normalized texts.                                             *)
(***************************************************************************)
C3_PipeReceivesNonEmptySubsequence ==
    /\ \A n \in 1..Len(pipe_calls) :
           LET c == pipe_calls[n]
           IN  /\ c.texts = NonEmptySubsequence(NormalizedTexts(c.attribute))
               /\ \A i \in 1..Len(c.texts) : c.texts[i] # EmptyText
               /\ Len(c.texts) =
                      Cardinality({ i \in 1..Len(examples) :
                          NormalizedTexts(c.attribute)[i] # EmptyText })
    /\ \A k \in AttributeNumbers :
           PipeStagePassed(k) =>
               Len(PipeCallsFor(DENSE_FEATURIZABLE_ATTRIBUTES[k])) = 1

\* two texts that differ in case only are both sent, lower-cased, next to an
\* attribute whose texts are absent or empty
C3_Witness ==
    /\ pc = "done"
    /\ ~ case_sensitive
    /\ Len(examples) = 2
    /\ examples[1]["text"] = <<"H", "i">>
    /\ examples[2]["text"] = <<"h", "i">>
    /\ examples[1]["response"] = EmptyText
    /\ examples[2]["response"] = <<" ">>
    /\ PipeCallsFor("text")[1].texts = << <<"h", "i">>, <<"h", "i">> >>
    /\ PipeCallsFor("response")[1].texts = << <<" ">> >>

(***************************************************************************)
(* C7: after train completes, a document is attached to an example under   *)
(* an attribute if and only if the example's normalized text for the       *)
(* attribute is not empty.                                                 *)
(***************************************************************************)
C7_AttachmentRule ==
    pc = "done" =>
        \A i \in 1..Len(examples) : \A a \in Attributes :
            (spacy_docs[i][a] # NoDoc) <=>
                (Normalized(case_sensitive, examples[i][a]) # EmptyText)

\* train is through: one example with a text and no response, one with a
\* whitespace text and an empty response
C7_Witness ==
    /\ pc = "done"
    /\ Len(examples) = 2
    /\ examples[1]["text"] = <<"H", "i">>
    /\ examples[1]["response"] = None
    /\ examples[2]["text"] = <<" ">>
    /\ examples[2]["response"] = EmptyText
    /\ spacy_docs[1]["text"] # NoDoc
    /\ spacy_docs[2]["response"] = NoDoc

(***************************************************************************)
(* C10: when nlp.pipe fails for an attribute, train ends with that         *)
(* failure, the document map is not returned (it lacks an attribute), and  *)
(* no example has a document attached under any attribute, the attributes  *)
(* whose batch had succeeded included.                                     *)
(***************************************************************************)
C10_BatchFailureAllOrNothing ==
    pc = "raised" =>
        /\ raised = "ProviderError"
        /\ Len(attribute_docs) < Len(DENSE_FEATURIZABLE_ATTRIBUTES)
        /\ spacy_docs = NothingAttached(examples)

\* the batch of the second attribute failed after the first attribute's batch
\* had produced a document that would be attached
C10_Witness ==
    /\ pc = "raised"
    /\ attr = 2
    /\ Len(attribute_docs) = 1
    /\ \E i \in 1..Len(examples) : DocLen(attribute_docs[1][i]) > 0

(***************************************************************************)
(* process: single-message inference.  examples holds the one message.     *)
(***************************************************************************)
\* a plausible slip: the test asks whether the text is present
IsPresent(raw) == raw # None

\* if message.get(attribute): None and the empty string are both falsy
Truthy(raw) == raw # None /\ raw # EmptyText

\* one nlp(text) call made for an attribute
NlpCallRecord(attribute, text) == [attribute |-> attribute, text |-> text]

\* doc_for_text: the text the single call is made on
DocForTextArgument(cs, text) == preprocess_text(cs, text)

InitProcess ==
    /\ InitAcquisition
    /\ examples \in [1..1 -> Examples]
    /\ case_sensitive \in BOOLEAN
    /\ pc = "process"
    /\ attr = 1
    /\ indexed_training_samples = << >>
    /\ samples_to_pipe = << >>
    /\ empty_samples = << >>
    /\ content_bearing_docs = << >>
    /\ non_content_bearing_docs = << >>
    /\ attribute_document_list = << >>
    /\ attribute_docs = << >>
    /\ pipe_calls = << >>
    /\ nlp_calls = << >>
    /\ spacy_docs = NothingAttached(examples)
    /\ raised = NoneStr

\* where the loop over the attributes goes after the attr-th attribute
ProcessAdvance ==
    IF attr < Len(DENSE_FEATURIZABLE_ATTRIBUTES)
    THEN attr' = attr + 1 /\ pc' = "process"
    ELSE attr' = attr /\ pc' = "done"

\* one turn of the loop: the attribute's text is falsy, nothing is done
ProcessSkip ==
    /\ pc = "process"
    /\ ~ Truthy(MessageGet(examples[1], DENSE_FEATURIZABLE_ATTRIBUTES[attr]))
    /\ ProcessAdvance
    /\ UNCHANGED <<examples, case_sensitive, indexed_training_samples,
                   samples_to_pipe, empty_samples, content_bearing_docs,
                   non_content_bearing_docs, attribute_document_list,
                   attribute_docs, pipe_calls, nlp_calls, spacy_docs, raised>>
    /\ UNCHANGED acqVars

\* one turn of the loop: the single call returns and its Doc is set
ProcessAttribute ==
    /\ pc = "process"
    /\ LET a == DENSE_FEATURIZABLE_ATTRIBUTES[attr]
           text == DocForTextArgument(case_sensitive, MessageGet(examples[1], a))
       IN  /\ Truthy(MessageGet(examples[1], a))
           /\ nlp_calls' = Append(nlp_calls, NlpCallRecord(a, text))
           /\ spacy_docs' = [spacy_docs EXCEPT ![1][a] = NlpCall(text)]
    /\ ProcessAdvance
    /\ UNCHANGED <<examples, case_sensitive, indexed_training_samples,
                   samples_to_pipe, empty_samples, content_bearing_docs,
                   non_content_bearing_docs, attribute_document_list,
                   attribute_docs, pipe_calls, raised>>
    /\ UNCHANGED acqVars

\* one turn of the loop: the single call fails, process ends with the failure
ProcessRaises ==
    /\ pc = "process"
    /\ LET a == DENSE_FEATURIZABLE_ATTRIBUTES[attr]
           text == DocForTextArgument(case_sensitive, MessageGet(examples[1], a))
       IN  /\ Truthy(MessageGet(examples[1], a))
           /\ nlp_calls' = Append(nlp_calls, NlpCallRecord(a, text))
    /\ raised' = "ProviderError"
    /\ pc' = "raised"
    /\ UNCHANGED <<examples, case_sensitive, attr, indexed_training_samples,
                   samples_to_pipe, empty_samples, content_bearing_docs,
                   non_content_bearing_docs, attribute_document_list,
                   attribute_docs, pipe_calls, spacy_docs>>
    /\ UNCHANGED acqVars

NextProcess ==
    \/ ProcessSkip
    \/ ProcessAttribute
    \/ ProcessRaises

SpecProcess == InitProcess /\ [][NextProcess]_vars

\* the nlp(text) calls made for an attribute
NlpCallsFor(attribute) ==
    LET Mine(c) == c.attribute = attribute
    IN  SelectSeq(nlp_calls, Mine)

\* exactly one single-text call on the normalized text, and its Doc attached
CalledOnceAndAttached(a) ==
    /\ Len(NlpCallsFor(a)) = 1
    /\ NlpCallsFor(a)[1].text = Normalized(case_sensitive, examples[1][a])
    /\ spacy_docs[1][a] = NlpCall(Normalized(case_sensitive, examples[1][a]))

NotCalledNotAttached(a) ==
    /\ NlpCallsFor(a) = << >>
    /\ spacy_docs[1][a] = NoDoc

(***************************************************************************)
(* C8 as stated: when process returns, for every attribute whose raw text  *)
(* is present exactly one single-text call was made, on the normalized     *)
(* text, and its Doc is attached whatever its token count; for an          *)
(* attribute whose raw text is absent no call was made and nothing is      *)
(* attached; the batched call was never made.                              *)
(***************************************************************************)
C8_Original_PresentText ==
    pc = "done" =>
        /\ \A a \in Attributes :
               IF examples[1][a] # None
               THEN CalledOnceAndAttached(a)
               ELSE NotCalledNotAttached(a)
        /\ pipe_calls = << >>

(***************************************************************************)
(* C8 as amended: when process returns, for every attribute whose raw text *)
(* is present and not the empty string exactly one single-text call was    *)
(* made, on the normalized text, and its Doc is attached whatever its      *)
(* token count; for an attribute whose raw text is absent or the empty     *)
(* string no call was made and nothing is attached; the batched call was   *)
(* never made.                                                             *)
(***************************************************************************)
C8_SingleExampleInference ==
    pc = "done" =>
        /\ \A a \in Attributes :
               IF examples[1][a] # None /\ examples[1][a] # EmptyText
               THEN CalledOnceAndAttached(a)
               ELSE NotCalledNotAttached(a)
        /\ pipe_calls = << >>

\* process returned for a message with an upper-case text and no response
C8_Witness ==
    /\ pc = "done"
    /\ ~ case_sensitive
    /\ examples[1]["text"] = <<"H", "i">>
    /\ examples[1]["response"] = None
    /\ Len(nlp_calls) = 1
    /\ spacy_docs[1]["text"].text = <<"h", "i">>

(***************************************************************************)
(* Model-name resolution, cache_key, create and load.                      *)
(***************************************************************************)
\* the fallback_mapping of _check_model_fallback
fallback_mapping ==
    [l \in {"zh", "da", "nl", "en", "fr", "de", "el", "it", "ja", "lt", "mk",
            "nb", "pl", "pt", "ro", "ru", "es"} |->
        CASE l = "zh" -> "zh_core_web_md"
          [] l = "da" -> "da_core_news_md"
          [] l = "nl" -> "nl_core_news_md"
          [] l = "en" -> "en_core_web_md"
          [] l = "fr" -> "fr_core_news_md"
          [] l = "de" -> "de_core_news_sm"
          [] l = "el" -> "el_core_news_md"
          [] l = "it" -> "it_core_news_md"
          [] l = "ja" -> "ja_core_news_md"
          [] l = "lt" -> "lt_core_news_md"
          [] l = "mk" -> "mk_core_news_md"
          [] l = "nb" -> "nb_core_news_md"
          [] l = "pl" -> "pl_core_news_md"
          [] l = "pt" -> "pt_core_news_md"
          [] l = "ro" -> "ro_core_news_md"
          [] l = "ru" -> "ru_core_news_md"
          [] l = "es" -> "es_core_news_md"]

\* the exceptions of this file
NoFallbackError == "InvalidModelError: There is no fallback model for language"
NotAvailableError == "InvalidModelError: Please confirm that the model is available"
NullProviderError == "Exception: Loading the model returned 'None'"
StubProviderError == "Exception: Failed to load spacy language model for lang"

\* the "model" entries a configuration may carry: none, the empty string, a
\* name that is also a fallback, a name that is not
ModelNames == {NoneStr, "", "en_core_web_md", "my_model"}

\* the languages of a configuration: two with a fallback, one without
Languages == {"en", "de", "xx"}

\* what spacy.load may do: raise OSError, return None, return a stub that was
\* not read from disk, return the Language read from disk
LoaderOutcomes == {"OSError", "None", "stub", "disk"}

\* the outcome of a resolution: the name or the error, and the warnings raised
Resolution(name, error, warned) ==
    [name |-> name, error |-> error, warned |-> warned]

\* a plausible slip: the warn flag is not looked at
check_model_fallback_always_warns(spacy_model_name, language_name, warn) ==
    IF spacy_model_name = NoneStr \/ spacy_model_name = ""
    THEN IF language_name \notin DOMAIN fallback_mapping
         THEN Resolution(NoneStr, NoFallbackError, 0)
         ELSE Resolution(fallback_mapping[language_name], NoneStr, 1)
    ELSE Resolution(spacy_model_name, NoneStr, 0)

\* a plausible slip: the fallback of a mapped language replaces the name given
check_model_fallback_table_first(spacy_model_name, language_name, warn) ==
    IF language_name \in DOMAIN fallback_mapping
    THEN Resolution(fallback_mapping[language_name], NoneStr, 0)
    ELSE IF spacy_model_name = NoneStr \/ spacy_model_name = ""
         THEN Resolution(NoneStr, NoFallbackError, 0)
         ELSE Resolution(spacy_model_name, NoneStr, 0)

\* _check_model_fallback
check_model_fallback(spacy_model_name, language_name, warn) ==
    IF spacy_model_name = NoneStr \/ spacy_model_name = ""
    THEN IF language_name \notin DOMAIN fallback_mapping
         THEN Resolution(NoneStr, NoFallbackError, 0)
         ELSE Resolution(fallback_mapping[language_name], NoneStr,
                         IF warn THEN 1 ELSE 0)
    ELSE Resolution(spacy_model_name, NoneStr, 0)

\* cls.name
ComponentName == "SpacyNLP"

\* a plausible slip: the key is made of the configured name, not the resolved
cache_key_of_configured(model, language) ==
    LET r == check_model_fallback(model, language, FALSE)
    IN  [key |-> IF r.error = NoneStr
                 THEN ComponentName \o "-" \o model ELSE NoneStr,
         resolution |-> r]

\* cache_key: the key, or the error of the resolution
cache_key(model, language) ==
    LET r == check_model_fallback(model, language, FALSE)
    IN  [key |-> IF r.error = NoneStr
                 THEN ComponentName \o "-" \o r.name ELSE NoneStr,
         resolution |-> r]

\* load_model: spacy.load, its OSError turned into InvalidModelError
load_model(spacy_model_name, outcome) ==
    CASE outcome = "OSError" -> [nlp |-> NlpNone, error |-> NotAvailableError]
      [] outcome = "None" -> [nlp |-> NlpNone, error |-> NoneStr]
      [] outcome = "stub" -> [nlp |-> NlpStub, error |-> NoneStr]
      [] outcome = "disk" ->
             [nlp |-> NlpFromDisk(spacy_model_name), error |-> NoneStr]

\* a plausible slip: the test of the path is left out
ensure_language_object_only(nlp) ==
    IF nlp.kind = "None" THEN NullProviderError ELSE NoneStr

\* ensure_proper_language_model: the exception raised, or None
ensure_proper_language_model(nlp) ==
    IF nlp.kind = "None" THEN NullProviderError
    ELSE IF nlp.path = NoneStr THEN StubProviderError
    ELSE NoneStr

\* the body create and load share: resolve with warn=True, load, validate,
\* construct.  steps lists the calls made, in order.
Acquire(model, language, outcome) ==
    LET r == check_model_fallback(model, language, TRUE)
        l == load_model(r.name, outcome)
        e == ensure_proper_language_model(l.nlp)
    IN  IF r.error # NoneStr
        THEN [steps |-> <<"_check_model_fallback">>, resolution |-> r,
              error |-> r.error, component |-> NoComponent]
        ELSE IF l.error # NoneStr
        THEN [steps |-> <<"_check_model_fallback", "load_model">>,
              resolution |-> r, error |-> l.error, component |-> NoComponent]
        ELSE IF e # NoneStr
        THEN [steps |-> <<"_check_model_fallback", "load_model",
                          "ensure_proper_language_model">>,
              resolution |-> r, error |-> e, component |-> NoComponent]
        ELSE [steps |-> <<"_check_model_fallback", "load_model",
                          "ensure_proper_language_model", "__init__">>,
              resolution |-> r, error |-> NoneStr,
              component |-> SpacyNLP(model, l.nlp)]

\* the record of a call
CallRecord(op, model, language, warn, cached, loader, steps, r, key, component, error) ==
    [op |-> op, model |-> model, language |-> language, warn |-> warn,
     cached |-> cached, loader |-> loader, steps |-> steps,
     name |-> r.name, key |-> key, component |-> component,
     error |-> error, warned |-> r.warned]

\* what every call does to the bookkeeping
Record(rec) ==
    /\ calls' = calls + 1
    /\ last' = rec
    /\ prev' = IF last.op = "cache_key" THEN last ELSE prev
    /\ advisories' = advisories + rec.warned
    /\ resident' = IF rec.component.kind = "SpacyNLP" /\ rec.op # "cache_key"
                   THEN rec.component ELSE resident
    /\ UNCHANGED runVars

\* SpacyNLP._check_model_fallback(model, language, warn), called directly
CheckModelFallback ==
    /\ calls < MaxCalls
    /\ \E model \in ModelNames, language \in Languages, warn \in BOOLEAN :
        LET r == check_model_fallback(model, language, warn)
        IN  Record(CallRecord("_check_model_fallback", model, language, warn,
                              FALSE, NoneStr, <<"_check_model_fallback">>,
                              r, NoneStr, NoComponent, r.error))

\* SpacyNLP.cache_key(component_meta, model_metadata)
CacheKey ==
    /\ calls < MaxCalls
    /\ \E model \in ModelNames, language \in Languages :
        LET k == cache_key(model, language)
        IN  Record(CallRecord("cache_key", model, language, FALSE, FALSE,
                              NoneStr, <<"_check_model_fallback">>,
                              k.resolution, k.key, NoComponent,
                              k.resolution.error))

\* SpacyNLP.create(component_config, config)
Create ==
    /\ calls < MaxCalls
    /\ \E model \in ModelNames, language \in Languages,
       outcome \in LoaderOutcomes :
        LET a == Acquire(model, language, outcome)
        IN  Record(CallRecord("create", model, language, TRUE, FALSE, outcome,
                              a.steps, a.resolution, NoneStr, a.component,
                              a.error))

\* SpacyNLP.load(meta, cached_component=None)
Load ==
    /\ calls < MaxCalls
    /\ \E model \in ModelNames, language \in Languages,
       outcome \in LoaderOutcomes :
        LET a == Acquire(model, language, outcome)
        IN  Record(CallRecord("load", model, language, TRUE, FALSE, outcome,
                              a.steps, a.resolution, NoneStr, a.component,
                              a.error))

\* SpacyNLP.load(meta, cached_component=resident): the cached component is
\* returned as it is
LoadCached ==
    /\ calls < MaxCalls
    /\ resident.kind = "SpacyNLP"
    /\ \E model \in ModelNames, language \in Languages :
           Record(CallRecord("load", model, language, FALSE, TRUE, NoneStr,
                             << >>, Resolution(NoneStr, NoneStr, 0), NoneStr,
                             resident, NoneStr))

NextAcquisition ==
    \/ CheckModelFallback
    \/ CacheKey
    \/ Create
    \/ Load
    \/ LoadCached

InitAcquire ==
    /\ InitAcquisition
    /\ InitIdle

SpecAcquisition == InitAcquire /\ [][NextAcquisition]_vars

(***************************************************************************)
(* What the claims about resolution and acquisition speak of.              *)
(***************************************************************************)
\* an explicit name is given: present and not the empty string
ExplicitGiven(model) == model # NoneStr /\ model # ""

\* the language has an entry in the fallback table
Mapped(language) == language \in DOMAIN fallback_mapping

\* the resolution has a result
Resolves(model, language) == ExplicitGiven(model) \/ Mapped(language)

\* the name a configuration resolves to
ResolvedName(model, language) ==
    IF ExplicitGiven(model) THEN model ELSE fallback_mapping[language]

\* the call resolved a model name
MadeResolution(rec) ==
    rec.op \in {"_check_model_fallback", "cache_key", "create", "load"}
        /\ ~ rec.cached

\* the call went through create, or through load without a cached component
Acquired(rec) == rec.op \in {"create", "load"} /\ ~ rec.cached

(***************************************************************************)
(* C4: resolution is a total function of (explicit name, language code).   *)
(* An explicit name that is present and not empty is returned verbatim,    *)
(* whatever the language; without one, a language of the fallback table    *)
(* gives the table's name ("en" gives "en_core_web_md") and any other      *)
(* language the no-fallback error.  The result is the same for warn=true   *)
(* and warn=false and does not depend on the calls made before.            *)
(***************************************************************************)
C4_ResolutionIsAFunction ==
    /\ MadeResolution(last) =>
           /\ ExplicitGiven(last.model) => last.name = last.model
           /\ (~ ExplicitGiven(last.model) /\ Mapped(last.language)) =>
                  /\ last.name = fallback_mapping[last.language]
                  /\ last.language = "en" => last.name = "en_core_web_md"
           /\ Resolves(last.model, last.language) =>
                  last.error # NoFallbackError
           /\ (~ ExplicitGiven(last.model) /\ ~ Mapped(last.language)) =>
                  /\ last.error = NoFallbackError
                  /\ last.name = NoneStr
    /\ (MadeResolution(last) /\ MadeResolution(prev)
            /\ last.model = prev.model /\ last.language = prev.language) =>
           /\ last.name = prev.name
           /\ (last.error = NoFallbackError) <=> (prev.error = NoFallbackError)

\* the fallback of "en", taken silently by cache_key and then, after another
\* call, with warn=true by a direct call: the same name
C4_Witness ==
    /\ calls = 3
    /\ prev.op = "cache_key"
    /\ prev.model = ""
    /\ prev.language = "en"
    /\ last.op = "_check_model_fallback"
    /\ last.warn
    /\ last.model = NoneStr
    /\ last.language = "en"
    /\ last.name = "en_core_web_md"

(***************************************************************************)
(* C5: for two configurations whose resolution succeeds, cache_key gives   *)
(* equal keys if and only if they resolve to the same model name; the key  *)
(* is the component's name, a hyphen and the resolved name; the same       *)
(* configuration gives the same key again; and when the resolution fails   *)
(* cache_key fails with the resolution's error and gives no key.           *)
(***************************************************************************)
C5_CacheKeyEquivalence ==
    /\ last.op = "cache_key" =>
           IF Resolves(last.model, last.language)
           THEN /\ last.error = NoneStr
                /\ last.key = "SpacyNLP" \o "-" \o
                                  ResolvedName(last.model, last.language)
           ELSE /\ last.error = NoFallbackError
                /\ last.key = NoneStr
    /\ (last.op = "cache_key" /\ prev.op = "cache_key"
            /\ Resolves(last.model, last.language)
            /\ Resolves(prev.model, prev.language)) =>
           /\ (last.key = prev.key) <=>
                  (ResolvedName(last.model, last.language) =
                       ResolvedName(prev.model, prev.language))
           /\ (last.model = prev.model /\ last.language = prev.language) =>
                  last.key = prev.key

\* two different configurations that resolve to the same model: no name with
\* language "en", and the explicit name "en_core_web_md" with language "de"
C5_Witness ==
    /\ prev.op = "cache_key"
    /\ prev.model = NoneStr
    /\ prev.language = "en"
    /\ last.op = "cache_key"
    /\ last.model = "en_core_web_md"
    /\ last.language = "de"
    /\ last.key = prev.key
    /\ last.key = "SpacyNLP-en_core_web_md"

(***************************************************************************)
(* C6: silent derivation.  Over any sequence of create, load and cache_key *)
(* calls (and direct resolutions), a call raises exactly one fallback      *)
(* warning when it makes a resolution with warn=true that takes the        *)
(* fallback (no explicit name, mapped language), and none otherwise:       *)
(* never in cache_key, never with an explicit name, never when the         *)
(* resolution fails.                                                       *)
(***************************************************************************)
ExpectedAdvisories(rec) ==
    IF /\ MadeResolution(rec)
       /\ rec.op # "cache_key"
       /\ rec.warn
       /\ ~ ExplicitGiven(rec.model)
       /\ Mapped(rec.language)
    THEN 1
    ELSE 0

C6_SilentDerivation ==
    [][ /\ advisories' = advisories + ExpectedAdvisories(last')
        /\ last'.op = "cache_key" => advisories' = advisories ]_vars

\* cache_key took the fallback of "en" silently, after a call that had taken
\* a fallback with a warning
C6_Witness ==
    /\ calls = 2
    /\ advisories = 1
    /\ last.op = "cache_key"
    /\ last.model = NoneStr
    /\ last.language = "en"
    /\ last.key = "SpacyNLP-en_core_web_md"

(***************************************************************************)
(* C9: create, and load without a cached component, return a component     *)
(* only when spacy.load returned a Language that was read from disk; they  *)
(* fail with the model-not-available error when spacy.load reports the     *)
(* model missing, with the null-provider error when it returned None, with *)
(* the stub-provider error when the Language has no path; no component is  *)
(* constructed when they fail; the validation runs after the load and      *)
(* before the component is constructed.                                    *)
(***************************************************************************)
C9_AcquisitionIsValidated ==
    Acquired(last) =>
        /\ last.component.kind = "SpacyNLP" =>
               /\ last.loader = "disk"
               /\ last.error = NoneStr
               /\ last.component.nlp.kind = "Language"
               /\ last.component.nlp.path # NoneStr
               /\ last.steps = <<"_check_model_fallback", "load_model",
                                 "ensure_proper_language_model", "__init__">>
        /\ Resolves(last.model, last.language) =>
               /\ last.loader = "OSError" => last.error = NotAvailableError
               /\ last.loader = "None" => last.error = NullProviderError
               /\ last.loader = "stub" => last.error = StubProviderError
               /\ last.loader = "disk" =>
                      /\ last.error = NoneStr
                      /\ last.component.kind = "SpacyNLP"
               /\ last.loader # "OSError" =>
                      /\ Len(last.steps) >= 3
                      /\ last.steps[2] = "load_model"
                      /\ last.steps[3] = "ensure_proper_language_model"
        /\ last.error # NoneStr =>
               /\ last.component = NoComponent
               /\ \A i \in 1..Len(last.steps) : last.steps[i] # "__init__"

\* load without a cached component: the fallback of "de" resolved, spacy.load
\* returned a stub
C9_Witness ==
    /\ last.op = "load"
    /\ ~ last.cached
    /\ last.model = NoneStr
    /\ last.language = "de"
    /\ last.loader = "stub"
    /\ last.error = StubProviderError
    /\ last.component = NoComponent

====
